---- MODULE Spec2Model ----
(***************************************************************************)
(* db_tickets_to_csv.py: Deutsche Bahn ticket PDFs -> CSV.                 *)
(*                                                                         *)
(* Strings are sequences of characters.  A character is a one-letter      *)
(* string; the characters outside ASCII that the program mentions are      *)
(* written by name: "ue" "oe" "ae" "UE" "OE" "AE" (umlauts), "EUR" (the    *)
(* euro sign), "ndash", "mdash", "rarr", "rsaquo" (the separator glyphs).  *)
(* Each of them is ONE character of the text.                              *)
(***************************************************************************)
EXTENDS Integers, Sequences, FiniteSets, TLC

\* ------------------------------------------------------------------------
\* Characters and the str methods the program uses
\* ------------------------------------------------------------------------

NL == "\n"

Digits == {"0", "1", "2", "3", "4", "5", "6", "7", "8", "9"}

UpperLetters ==
  {"A", "B", "C", "D", "E", "F", "G", "H", "I", "J", "K", "L", "M", "N", "O",
   "P", "Q", "R", "S", "T", "U", "V", "W", "X", "Y", "Z", "UE", "OE", "AE"}

LowerLetters ==
  {"a", "b", "c", "d", "e", "f", "g", "h", "i", "j", "k", "l", "m", "n", "o",
   "p", "q", "r", "s", "t", "u", "v", "w", "x", "y", "z", "ue", "oe", "ae"}

\* str.isalpha() of one character
IsAlpha(c) == c \in UpperLetters \cup LowerLetters

\* str.isspace() of one character, and the class \s
WhiteSpace == {" ", NL, "\t", "\r", "nbsp"}

\* the class \w (for \b)
IsWord(c) == IsAlpha(c) \/ c \in Digits \/ c = "_"

CaseMap ==
  "A" :> "a" @@ "B" :> "b" @@ "C" :> "c" @@ "D" :> "d" @@ "E" :> "e" @@
  "F" :> "f" @@ "G" :> "g" @@ "H" :> "h" @@ "I" :> "i" @@ "J" :> "j" @@
  "K" :> "k" @@ "L" :> "l" @@ "M" :> "m" @@ "N" :> "n" @@ "O" :> "o" @@
  "P" :> "p" @@ "Q" :> "q" @@ "R" :> "r" @@ "S" :> "s" @@ "T" :> "t" @@
  "U" :> "u" @@ "V" :> "v" @@ "W" :> "w" @@ "X" :> "x" @@ "Y" :> "y" @@
  "Z" :> "z" @@ "UE" :> "ue" @@ "OE" :> "oe" @@ "AE" :> "ae"

LowerChar(c) == IF c \in UpperLetters THEN CaseMap[c] ELSE c

\* a function on 1..n as the tuple of its values
AsTuple(f) == f \o <<>>

\* str.lower()
Lower(s) == AsTuple([i \in 1..Len(s) |-> LowerChar(s[i])])

\* Python's None; no string of the model equals it
None == <<"<None>">>

\* s[a:b] with 0 <= a, b <= len(s), Python's half-open slice
Slice(s, a, b) == SubSeq(s, a + 1, b)

\* str.startswith at an offset: t occurs in s from 1-based position i
OccursAt(s, t, i) ==
  /\ i >= 1
  /\ i + Len(t) - 1 <= Len(s)
  /\ \A j \in 1..Len(t) : s[i + j - 1] = t[j]

\* t in s
Contains(s, t) == \E i \in 1..(Len(s) + 1) : OccursAt(s, t, i)

\* str.endswith
EndsWith(s, t) == Len(t) <= Len(s) /\ OccursAt(s, t, Len(s) - Len(t) + 1)

\* the least element of a non-empty set of integers
Least(ns) == CHOOSE n \in ns : \A k \in ns : n <= k

\* str.find, 1-based; 0 when t does not occur
Find(s, t) ==
  IF Contains(s, t) THEN Least({i \in 1..(Len(s) + 1) : OccursAt(s, t, i)}) ELSE 0

\* str.split(t, 1)[0]
SplitFirst(s, t) == IF Find(s, t) = 0 THEN s ELSE SubSeq(s, 1, Find(s, t) - 1)

\* the position of the first character that is not whitespace, len + 1 if none
FirstNonSpace(s) ==
  Least({i \in 1..Len(s) : s[i] \notin WhiteSpace} \cup {Len(s) + 1})

\* the position of the last character that is not whitespace, 0 if none
LastNonSpace(s) ==
  -Least({-i : i \in {j \in 1..Len(s) : s[j] \notin WhiteSpace}} \cup {0})

\* str.strip()
Strip(s) == SubSeq(s, FirstNonSpace(s), LastNonSpace(s))

\* str.split(): the maximal runs of non-whitespace, in order
TokenStarts(s) ==
  {i \in 1..Len(s) : s[i] \notin WhiteSpace /\ (i = 1 \/ s[i - 1] \in WhiteSpace)}

TokenEnd(s, i) == Least({j \in i..Len(s) : j = Len(s) \/ s[j + 1] \in WhiteSpace})

NthStart(s, k) ==
  CHOOSE i \in TokenStarts(s) : Cardinality({j \in TokenStarts(s) : j < i}) = k - 1

Tokens(s) ==
  AsTuple([k \in 1..Cardinality(TokenStarts(s)) |->
             SubSeq(s, NthStart(s, k), TokenEnd(s, NthStart(s, k)))])

\* " ".join(toks[a:b]), a and b as in a Python slice
RECURSIVE JoinTokens(_, _, _)
JoinTokens(toks, a, b) ==
  IF a >= b THEN <<>>
  ELSE IF a + 1 = b THEN toks[a + 1]
  ELSE toks[a + 1] \o <<" ">> \o JoinTokens(toks, a + 1, b)

\* ------------------------------------------------------------------------
\* Regular expressions (module re): a backtracking matcher.  A way to match
\* is [e |-> the next position, g |-> the groups, p |-> the choices made],
\* a group being <<start, end>> (1-based, end exclusive; <<0, 0>> unset).
\* p lists, in the order the engine meets them, the rank of the choice taken
\* at each choice point (the alternative of a|b, the count of a repetition:
\* most first if greedy, least first if lazy).  The engine tries the ways
\* in the lexicographic order of p, so the match is the way with the least p.
\* ------------------------------------------------------------------------

\* a literal word
Word(s) == [k |-> "word", w |-> s]
Lit(c) == Word(<<c>>)
Cls(cs) == [k |-> "set", cs |-> cs]
AnyChar == [k |-> "any"]
Cat(xs) == [k |-> "seq", xs |-> xs]
Alt(xs) == [k |-> "alt", xs |-> xs]
Grp(n, r) == [k |-> "grp", n |-> n, r |-> r]
\* hi = -1: unbounded
Rep(r, lo, hi) == [k |-> "rep", r |-> r, lo |-> lo, hi |-> hi, greedy |-> TRUE]
LazyRep(r, lo, hi) == [k |-> "rep", r |-> r, lo |-> lo, hi |-> hi, greedy |-> FALSE]
Bol == [k |-> "bol"]
Eol == [k |-> "eol"]
WordB == [k |-> "wb"]
\* \d and \s
D == Cls(Digits)
S == Cls(WhiteSpace)

\* flags: I = re.IGNORECASE, M = re.MULTILINE
Flags(i, m) == [I |-> i, M |-> m]

NoGroups == << <<0, 0>>, <<0, 0>>, <<0, 0>> >>

WordAt(s, i) == i >= 1 /\ i <= Len(s) /\ IsWord(s[i])

\* the word w at position i, letters compared as the flags say
WordOccursAt(f, s, w, i) ==
  /\ i + Len(w) - 1 <= Len(s)
  /\ \A j \in 1..Len(w) :
       IF f.I THEN LowerChar(s[i + j - 1]) = LowerChar(w[j]) ELSE s[i + j - 1] = w[j]

\* one character against a class or the dot
CharOk(r, c) == IF r.k = "set" THEN c \in r.cs ELSE c # NL

\* how many characters from position i on match the class r, at most hi
RunLen(r, hi, s, i) ==
  Least({n \in 0..(Len(s) - i + 1) :
           /\ \A j \in 0..(n - 1) : CharOk(r, s[i + j])
           /\ (n = hi \/ i + n > Len(s) \/ ~CharOk(r, s[i + n]))})

Chose(m, rank) == [m EXCEPT !.p = Append(@, rank)]

RECURSIVE Match(_, _, _, _)
RECURSIVE MatchSeq(_, _, _, _, _)
RECURSIVE MatchRep(_, _, _, _, _)

\* the ways r matches from the way m on
Match(r, f, s, m) ==
  CASE r.k = "word" ->
         IF WordOccursAt(f, s, r.w, m.e) THEN {[m EXCEPT !.e = @ + Len(r.w)]} ELSE {}
    [] r.k \in {"set", "any"} ->
         IF m.e <= Len(s) /\ CharOk(r, s[m.e]) THEN {[m EXCEPT !.e = @ + 1]} ELSE {}
    [] r.k = "bol" ->
         IF m.e = 1 \/ (f.M /\ s[m.e - 1] = NL) THEN {m} ELSE {}
    [] r.k = "eol" ->
         IF \/ m.e = Len(s) + 1
            \/ (m.e = Len(s) /\ s[m.e] = NL)
            \/ (f.M /\ m.e <= Len(s) /\ s[m.e] = NL)
           THEN {m} ELSE {}
    [] r.k = "wb" ->
         IF WordAt(s, m.e - 1) # WordAt(s, m.e) THEN {m} ELSE {}
    [] r.k = "seq" -> MatchSeq(r.xs, 1, f, s, {m})
    [] r.k = "alt" ->
         UNION {Match(r.xs[j], f, s, Chose(m, j)) : j \in 1..Len(r.xs)}
    [] r.k = "grp" ->
         {[a EXCEPT !.g[r.n] = <<m.e, a.e>>] : a \in Match(r.r, f, s, m)}
    [] r.k = "rep" ->
         IF r.r.k \in {"set", "any"}
           THEN {[e |-> m.e + n,
                  g |-> m.g,
                  p |-> Append(m.p, IF r.greedy THEN RunLen(r.r, r.hi, s, m.e) - n
                                                ELSE n - r.lo)] :
                   n \in r.lo..RunLen(r.r, r.hi, s, m.e)}
           ELSE MatchRep(r, 0, f, s, m)

\* the elements xs[j], xs[j + 1], ... after the ways ms
MatchSeq(xs, j, f, s, ms) ==
  IF j > Len(xs) THEN ms
  ELSE MatchSeq(xs, j + 1, f, s, UNION {Match(xs[j], f, s, m) : m \in ms})

\* a repetition of a group, n repetitions done: go on (first if greedy) or stop
MatchRep(r, n, f, s, m) ==
  (IF n >= r.lo THEN {Chose(m, IF r.greedy THEN 1 ELSE 0)} ELSE {})
  \cup
  (IF r.hi # -1 /\ n >= r.hi THEN {}
   ELSE UNION {MatchRep(r, n + 1, f, s, a) :
                 a \in {b \in Match(r.r, f, s, Chose(m, IF r.greedy THEN 0 ELSE 1)) :
                          b.e > m.e}})

\* p before q in the order the engine tries the ways
Before(p, q) ==
  \E k \in 1..Len(p) :
    /\ k <= Len(q)
    /\ p[k] < q[k]
    /\ \A j \in 1..(k - 1) : p[j] = q[j]

First(ms) == CHOOSE m \in ms : \A a \in ms : a.p = m.p \/ Before(m.p, a.p)

NoMatch == [found |-> FALSE, start |-> 0, end |-> 0, g |-> NoGroups]

Ways(r, f, s, i) == Match(r, f, s, [e |-> i, g |-> NoGroups, p |-> <<>>])

\* pattern.match(s, pos): the first way to match at position i
MatchAt(r, f, s, i) ==
  IF Ways(r, f, s, i) = {} THEN NoMatch
  ELSE [found |-> TRUE, start |-> i,
        end |-> First(Ways(r, f, s, i)).e, g |-> First(Ways(r, f, s, i)).g]

\* pattern.search(s, pos): the leftmost position from i on with a match
SearchFrom(r, f, s, i) ==
  IF \A j \in i..(Len(s) + 1) : Ways(r, f, s, j) = {} THEN NoMatch
  ELSE MatchAt(r, f, s, Least({j \in i..(Len(s) + 1) : Ways(r, f, s, j) # {}}))

\* pattern.search(s)
Search(r, f, s) == SearchFrom(r, f, s, 1)

\* m.group(n)
Group(s, m, n) == SubSeq(s, m.g[n][1], m.g[n][2] - 1)

\* ------------------------------------------------------------------------
\* State
\* ------------------------------------------------------------------------

VARIABLES
  strftimePadsYear, \* the C library's %Y: TRUE pads a year below 1000 to four digits
  disk,             \* the files below the folder argument (relative paths)
  recursive,        \* args.recursive
  listing,          \* what iter_pdfs yielded, in the order it yielded it
  pdfs,             \* main's pdfs
  idx,              \* the position of "for p in pdfs" (1-based; 0 before the loop)
  rows,             \* main's rows
  raised,           \* the positions in pdfs whose extraction raised (history)
  csv,              \* the output file: the sequence of files written by to_csv
  pc,               \* where main is
  exitMsg,          \* SystemExit's message, None while there is none
  call              \* a call of one extractor: [fn, arg, ret, done]

vars == <<strftimePadsYear, disk, recursive, listing, pdfs, idx, rows, raised, csv, pc, exitMsg, call>>

\* ------------------------------------------------------------------------
\* The compiled patterns
\* ------------------------------------------------------------------------

\* \d{2}\.\d{2}\.\d{4}
DATE_DDMMYYYY == Cat(<<Rep(D, 2, 2), Lit("."), Rep(D, 2, 2), Lit("."), Rep(D, 4, 4)>>)

\* Gesamtpreis\s+(\d{1,3}(?:\.\d{3})*,\d{2})\s*EUR
RE_PRICE ==
  Cat(<<Word(<<"G","e","s","a","m","t","p","r","e","i","s">>),
        Rep(S, 1, -1),
        Grp(1, Cat(<<Rep(D, 1, 3),
                     Rep(Cat(<<Lit("."), Rep(D, 3, 3)>>), 0, -1),
                     Lit(","),
                     Rep(D, 2, 2)>>)),
        Rep(S, 0, -1),
        Lit("EUR")>>)

\* Fahrtantritt\s+am\s+(\d{2}\.\d{2}\.\d{4})
RE_DATE_FAHRTANTRITT ==
  Cat(<<Word(<<"F","a","h","r","t","a","n","t","r","i","t","t">>),
        Rep(S, 1, -1),
        Word(<<"a","m">>),
        Rep(S, 1, -1),
        Grp(1, DATE_DDMMYYYY)>>)

\* Gueltigkeit:\s*(\d{2}\.\d{2}\.\d{4})\s*00:00\s*Uhr
RE_DATE_GUELTIGKEIT ==
  Cat(<<Word(<<"G","ue","l","t","i","g","k","e","i","t",":">>),
        Rep(S, 0, -1),
        Grp(1, DATE_DDMMYYYY),
        Rep(S, 0, -1),
        Word(<<"0","0",":","0","0">>),
        Rep(S, 0, -1),
        Word(<<"U","h","r">>)>>)

\* \bam\s+(\d{2}\.\d{2}\.\d{4})\b
RE_DATE_AM_ANY ==
  Cat(<<WordB, Word(<<"a","m">>), Rep(S, 1, -1), Grp(1, DATE_DDMMYYYY), WordB>>)

\* ^(Einfache\s+Fahrt|Hinfahrt)\s+(.+?)\s*$
RE_ROUTE_LINE ==
  Cat(<<Bol,
        Grp(1, Alt(<<Cat(<<Word(<<"E","i","n","f","a","c","h","e">>),
                           Rep(S, 1, -1),
                           Word(<<"F","a","h","r","t">>)>>),
                     Word(<<"H","i","n","f","a","h","r","t">>)>>)),
        Rep(S, 1, -1),
        Grp(2, LazyRep(AnyChar, 1, -1)),
        Rep(S, 0, -1),
        Eol>>)

\* \s*(?:-|ndash|mdash|rarr|->|rsaquo|>|<)\s*, the alternatives in the source's order
RE_ROUTE_SPLIT_SEP ==
  Cat(<<Rep(S, 0, -1),
        Alt(<<Lit("-"), Lit("ndash"), Lit("mdash"), Lit("rarr"),
              Word(<<"-", ">">>), Lit("rsaquo"), Lit(">"), Lit("<")>>),
        Rep(S, 0, -1)>>)

IgnoreCase == Flags(TRUE, FALSE)
IgnoreCaseMultiline == Flags(TRUE, TRUE)
NoFlags == Flags(FALSE, FALSE)

\* ------------------------------------------------------------------------
\* normalize_text
\* ------------------------------------------------------------------------

Blank == {" ", "\t"}

\* text.replace("\r", "\n").replace(nbsp, " ")
replace_cr_nbsp(text) ==
  AsTuple([i \in 1..Len(text) |->
             IF text[i] = "\r" THEN NL ELSE IF text[i] = "nbsp" THEN " " ELSE text[i]])

\* the characters of a marked text, <<keep, character>> at each position
Characters(marked) == AsTuple([i \in 1..Len(marked) |-> marked[i][2]])

\* the characters of a marked text that are kept
Kept(marked) == Characters(SelectSeq(marked, LAMBDA x : x[1]))

\* re.sub(r"[ \t]+", " ", text): a run of blanks becomes one space
collapse_blanks(s) ==
  Kept(AsTuple([i \in 1..Len(s) |->
                  <<~(s[i] \in Blank /\ i > 1 /\ s[i - 1] \in Blank),
                    IF s[i] \in Blank THEN " " ELSE s[i]>>]))

\* re.sub(r"\n{3,}", "\n\n", text): of a run of three or more newlines two stay
collapse_newlines(s) ==
  Kept(AsTuple([i \in 1..Len(s) |->
                  <<~(i + 2 <= Len(s) /\ s[i] = NL /\ s[i + 1] = NL /\ s[i + 2] = NL),
                    s[i]>>]))

normalize_text(text) == Strip(collapse_newlines(collapse_blanks(replace_cr_nbsp(text))))

\* ------------------------------------------------------------------------
\* to_iso_date: datetime.strptime(d, "%d.%m.%Y").strftime("%Y-%m-%d")
\* ------------------------------------------------------------------------

NonZeroDigits == Digits \ {"0"}

\* the pattern _strptime compiles for "%d.%m.%Y":
\* (3[0-1]|[1-2]\d|0[1-9]|[1-9]| [1-9])\.(1[0-2]|0[1-9]|[1-9])\.(\d\d\d\d)
STRPTIME_RE ==
  Cat(<<Grp(1, Alt(<<Cat(<<Lit("3"), Cls({"0", "1"})>>),
                     Cat(<<Cls({"1", "2"}), D>>),
                     Cat(<<Lit("0"), Cls(NonZeroDigits)>>),
                     Cls(NonZeroDigits),
                     Cat(<<Lit(" "), Cls(NonZeroDigits)>>)>>)),
        Lit("."),
        Grp(2, Alt(<<Cat(<<Lit("1"), Cls({"0", "1", "2"})>>),
                     Cat(<<Lit("0"), Cls(NonZeroDigits)>>),
                     Cls(NonZeroDigits)>>)),
        Lit("."),
        Grp(3, Rep(D, 4, 4))>>)

DigitValue ==
  "0" :> 0 @@ "1" :> 1 @@ "2" :> 2 @@ "3" :> 3 @@ "4" :> 4 @@
  "5" :> 5 @@ "6" :> 6 @@ "7" :> 7 @@ "8" :> 8 @@ "9" :> 9

DigitChar == <<"0", "1", "2", "3", "4", "5", "6", "7", "8", "9">>

\* int(s) of digits with leading blanks
RECURSIVE ToInt(_)
ToInt(s) ==
  IF s = <<>> THEN 0
  ELSE IF s[Len(s)] = " " THEN ToInt(SubSeq(s, 1, Len(s) - 1))
  ELSE 10 * ToInt(SubSeq(s, 1, Len(s) - 1)) + DigitValue[s[Len(s)]]

\* str(n) for n >= 0
RECURSIVE ToStr(_)
ToStr(n) == IF n < 10 THEN <<DigitChar[n + 1]>> ELSE ToStr(n \div 10) \o <<DigitChar[(n % 10) + 1]>>

\* n zero-padded to at least w digits
RECURSIVE ZeroPad(_, _)
ZeroPad(s, w) == IF Len(s) >= w THEN s ELSE ZeroPad(<<"0">> \o s, w)

IsLeap(y) == (y % 4 = 0) /\ ((y % 100 # 0) \/ (y % 400 = 0))

DaysInMonth(y, m) ==
  IF m = 2 THEN (IF IsLeap(y) THEN 29 ELSE 28)
  ELSE IF m \in {4, 6, 9, 11} THEN 30 ELSE 31

\* strptime: [ok |-> FALSE] is ValueError
strptime(d) ==
  LET m   == MatchAt(STRPTIME_RE, IgnoreCase, d, 1)
      day == ToInt(Group(d, m, 1))
      mon == ToInt(Group(d, m, 2))
      yr  == ToInt(Group(d, m, 3))
      bad == [ok |-> FALSE, day |-> 0, month |-> 0, year |-> 0]
  IN  IF ~m.found THEN bad                        \* does not match format
      ELSE IF m.end # Len(d) + 1 THEN bad         \* unconverted data remains
      ELSE IF yr < 1 THEN bad                     \* year 0 is out of range
      ELSE IF day > DaysInMonth(yr, mon) THEN bad \* day is out of range for month
      ELSE [ok |-> TRUE, day |-> day, month |-> mon, year |-> yr]

\* strftime("%Y-%m-%d"): %m and %d are two digits; %Y is the C library's
strftime(t) ==
  (IF strftimePadsYear THEN ZeroPad(ToStr(t.year), 4) ELSE ToStr(t.year))
    \o <<"-">> \o ZeroPad(ToStr(t.month), 2)
    \o <<"-">> \o ZeroPad(ToStr(t.day), 2)

to_iso_date(d) == IF strptime(d).ok THEN strftime(strptime(d)) ELSE d

\* ------------------------------------------------------------------------
\* parse_date, parse_price
\* ------------------------------------------------------------------------

Max(a, b) == IF a >= b THEN a ELSE b

\* for m in RE_DATE_AM_ANY.finditer(text), the scan resuming at position i
RECURSIVE parse_date_fallback(_, _)
parse_date_fallback(text, i) ==
  LET m     == SearchFrom(RE_DATE_AM_ANY, IgnoreCase, text, i)
      start == m.start - 1
      left  == Lower(Slice(text, Max(0, start - 30), start))
  IN  IF ~m.found THEN None
      ELSE IF Contains(left, <<"g","e","b","u","c","h","t">>)
        THEN parse_date_fallback(text, m.end)
        ELSE to_iso_date(Group(text, m, 1))

\* a parse_date that asks RE_DATE_GUELTIGKEIT before RE_DATE_FAHRTANTRITT
parse_date_gueltigkeit_first(text) ==
  LET m1 == Search(RE_DATE_FAHRTANTRITT, IgnoreCase, text)
      m2 == Search(RE_DATE_GUELTIGKEIT, IgnoreCase, text)
  IN  IF m2.found THEN to_iso_date(Group(text, m2, 1))
      ELSE IF m1.found THEN to_iso_date(Group(text, m1, 1))
      ELSE parse_date_fallback(text, 1)

parse_date(text) ==
  LET m1 == Search(RE_DATE_FAHRTANTRITT, IgnoreCase, text)
      m2 == Search(RE_DATE_GUELTIGKEIT, IgnoreCase, text)
  IN  IF m1.found THEN to_iso_date(Group(text, m1, 1))
      ELSE IF m2.found THEN to_iso_date(Group(text, m2, 1))
      ELSE parse_date_fallback(text, 1)

\* the amount as the text of a number: thousands dots dropped, decimal point
AsNumber(amount) ==
  AsTuple([i \in 1..Len(SelectSeq(amount, LAMBDA c : c # ".")) |->
             IF SelectSeq(amount, LAMBDA c : c # ".")[i] = ","
               THEN "." ELSE SelectSeq(amount, LAMBDA c : c # ".")[i]])

\* a parse_price that converts the amount
parse_price_number(text) ==
  LET m == Search(RE_PRICE, IgnoreCase, text)
  IN  IF m.found THEN AsNumber(Group(text, m, 1)) ELSE None

parse_price(text) ==
  LET m == Search(RE_PRICE, IgnoreCase, text)
  IN  IF m.found THEN Group(text, m, 1) ELSE None

\* ------------------------------------------------------------------------
\* score_ending, split_start_ziel, parse_route
\* ------------------------------------------------------------------------

endings ==
  {<<"h","b","f">>, <<"h","a","u","p","t","b","a","h","n","h","o","f">>,
   <<"+","c","i","t","y">>, <<"c","i","t","y">>, <<"b","f">>}

score_ending(s) ==
  LET s_low == Strip(Lower(s))
  IN  IF \E e \in endings : EndsWith(s_low, e) THEN 3 ELSE 0

HasAlpha(s) == \E i \in 1..Len(s) : IsAlpha(s[i])

\* the body of the loop over k: the score of the candidate (a, b)
split_score(a, b) ==
  score_ending(a) + score_ending(b)
    + (IF HasAlpha(a) THEN 1 ELSE 0)
    + (IF HasAlpha(b) THEN 1 ELSE 0)
    + (IF 3 <= Len(a) /\ Len(a) <= 80 THEN 1 ELSE 0)
    + (IF 3 <= Len(b) /\ Len(b) <= 80 THEN 1 ELSE 0)
    - (IF Contains(a, <<":">>) \/ Contains(b, <<":">>) THEN 3 ELSE 0)

\* a running maximum that a later candidate of equal score replaces
better_or_equal(score, best_score) == score >= best_score

\* the running maximum replaces on score > best_score
better(score, best_score) == score > best_score

\* for k in range(k, len(tokens)) with the running best and best_score
RECURSIVE best_split(_, _, _, _)
best_split(tokens, k, best, best_score) ==
  IF k >= Len(tokens) THEN best
  ELSE LET a     == Strip(JoinTokens(tokens, 0, k))
           b     == Strip(JoinTokens(tokens, k, Len(tokens)))
           score == split_score(a, b)
       IN  IF a = <<>> \/ b = <<>> THEN best_split(tokens, k + 1, best, best_score)
           ELSE IF better(score, best_score)
             THEN best_split(tokens, k + 1, <<a, b>>, score)
             ELSE best_split(tokens, k + 1, best, best_score)

\* a split_start_ziel that keeps the Via clause
cut_via_none(route_part) == Strip(route_part)

\* route_part.split(" Via:", 1)[0].split(" Via", 1)[0].split("Via:", 1)[0].strip()
cut_via(route_part) ==
  Strip(SplitFirst(SplitFirst(SplitFirst(route_part, <<" ","V","i","a",":">>),
                              <<" ","V","i","a">>),
                   <<"V","i","a",":">>))

\* RE_ROUTE_SPLIT_SEP.split(route_part, maxsplit=1)
sep_split(route_part) ==
  LET m == Search(RE_ROUTE_SPLIT_SEP, NoFlags, route_part)
  IN  IF m.found
        THEN <<SubSeq(route_part, 1, m.start - 1), SubSeq(route_part, m.end, Len(route_part))>>
        ELSE <<route_part>>

\* the pair (start, ziel)
split_start_ziel(route_part0) ==
  LET route_part == cut_via(Strip(route_part0))
      parts      == sep_split(route_part)
      tokens     == Tokens(route_part)
      best       == best_split(tokens, 1, None, -10)
  IN  IF Len(parts) = 2 /\ Strip(parts[1]) # <<>> /\ Strip(parts[2]) # <<>>
        THEN <<Strip(parts[1]), Strip(parts[2])>>
      ELSE IF Len(tokens) < 2
        THEN <<(IF route_part = <<>> THEN None ELSE route_part), None>>
      ELSE IF best # None THEN best
      ELSE <<route_part, None>>

\* the triple (kind, start, ziel)
parse_route(text) ==
  LET m == Search(RE_ROUTE_LINE, IgnoreCaseMultiline, text)
  IN  IF ~m.found THEN <<None, None, None>>
      ELSE <<Strip(Group(text, m, 1))>> \o split_start_ziel(Strip(Group(text, m, 2)))

\* ------------------------------------------------------------------------
\* The documents
\* ------------------------------------------------------------------------

\* the files that can be below the folder: two tickets, a ticket in a
\* subfolder, and a file that is no PDF
FILE_B == <<"b",".","p","d","f">>
FILE_A == <<"a",".","P","D","F">>
FILE_SUB == <<"d","/","a",".","p","d","f">>
FILE_TXT == <<"c",".","t","x","t">>

Files == {FILE_B, FILE_A, FILE_SUB, FILE_TXT}

\* most files a folder holds
MaxFiles == 3

\* page.extract_text() of each page of a document
Pages(path) ==
  IF path = FILE_A
    THEN << <<"F","a","h","r","k","a","r","t","e","\r",NL>>
              \o <<"E","i","n","f","a","c","h","e"," ","F","a","h","r","t"," "," ">>
              \o <<"B","e","r","l","i","n"," ","H","b","f"," ","H","a","m","b","u","r","g"," ","H","b","f">>,
            <<" ", NL>>,
            <<"G","e","s","a","m","t","p","r","e","i","s","nbsp","2","9",",","9","0"," ","EUR",NL>>
              \o <<"F","a","h","r","t","a","n","t","r","i","t","t"," ","a","m"," ">>
              \o <<"0","5",".","0","1",".","2","0","2","4">> >>
  ELSE IF path = FILE_B
    THEN << <<"H","i","n","f","a","h","r","t"," ","M","ue","n","c","h","e","n"," ","-"," ">>
              \o <<"F","r","a","n","k","f","u","r","t","(","M","a","i","n",")","H","b","f",NL>>
              \o <<"G","ue","l","t","i","g","k","e","i","t",":"," ">>
              \o <<"0","7",".","0","1",".","2","0","2","4"," ","0","0",":","0","0"," ","U","h","r">> >>
  ELSE << <<>> >>

\* str(e) of what pdfplumber raises: an exception raised without arguments
\* (pdfminer's PDFPasswordIncorrect, a failed assert) has the empty message
ExceptionMessages ==
  {<<>>, <<"N","o"," ","/","R","o","o","t"," ","o","b","j","e","c","t","!">>}

\* ------------------------------------------------------------------------
\* extract_text_from_pdf, iter_pdfs, sorted, the rows
\* ------------------------------------------------------------------------

\* "\n".join(parts) of the pages whose text is not blank
RECURSIVE join_pages(_, _)
join_pages(pages, n) ==
  IF n > Len(pages) THEN <<>>
  ELSE IF Strip(pages[n]) = <<>> THEN join_pages(pages, n + 1)
  ELSE IF \A k \in (n + 1)..Len(pages) : Strip(pages[k]) = <<>> THEN pages[n]
  ELSE pages[n] \o <<NL>> \o join_pages(pages, n + 1)

extract_text_from_pdf(path) == normalize_text(join_pages(Pages(path), 1))

\* the paths iter_pdfs yields, as a set
iter_pdfs(folder, rec) ==
  {fn \in folder :
     /\ EndsWith(Lower(fn), <<".","p","d","f">>)
     /\ (rec \/ ~Contains(fn, <<"/">>))}

\* the orders in which the paths of a set can be yielded
Orders(paths) ==
  {t \in [1..Cardinality(paths) -> paths] : \A i, j \in DOMAIN t : i # j => t[i] # t[j]}

\* ord(c) of the characters of the paths
CodePoint ==
  "." :> 46 @@ "/" :> 47 @@ "D" :> 68 @@ "F" :> 70 @@ "P" :> 80 @@ "a" :> 97 @@
  "b" :> 98 @@ "c" :> 99 @@ "d" :> 100 @@ "f" :> 102 @@ "p" :> 112 @@ "t" :> 116 @@
  "x" :> 120

\* a < b for str
StrLess(a, b) ==
  \/ Len(a) < Len(b) /\ \A i \in 1..Len(a) : a[i] = b[i]
  \/ \E k \in 1..Len(a) :
       /\ k <= Len(b)
       /\ CodePoint[a[k]] < CodePoint[b[k]]
       /\ \A i \in 1..(k - 1) : a[i] = b[i]

\* a sorted() that leaves the order of enumeration
sorted_unsorted(xs) == xs

\* sorted(xs) of distinct strings
sorted(xs) ==
  AsTuple([k \in 1..Len(xs) |->
             xs[CHOOSE i \in 1..Len(xs) :
                  Cardinality({j \in 1..Len(xs) : StrLess(xs[j], xs[i])}) = k - 1]])

\* os.path.basename
basename(path) ==
  SubSeq(path, 1 + -Least({-i : i \in {j \in 1..Len(path) : path[j] = "/"}} \cup {0}), Len(path))

\* a test that never finds the list empty
no_pdfs_never(ps) == FALSE

\* if not pdfs
no_pdfs(ps) == ps = <<>>

\* the row of a document whose text was extracted
ok_row(path) ==
  [Datei    |-> basename(path),
   Datum    |-> parse_date(extract_text_from_pdf(path)),
   Preis    |-> parse_price(extract_text_from_pdf(path)),
   Fahrtart |-> parse_route(extract_text_from_pdf(path))[1],
   Start    |-> parse_route(extract_text_from_pdf(path))[2],
   Ziel     |-> parse_route(extract_text_from_pdf(path))[3]]

\* the row of a document whose extraction raised e, msg = str(e)
error_row(path, msg) ==
  [Datei    |-> basename(path),
   Datum    |-> None,
   Preis    |-> None,
   Fahrtart |-> None,
   Start    |-> None,
   Ziel     |-> None,
   Fehler   |-> msg]

\* ------------------------------------------------------------------------
\* main
\* ------------------------------------------------------------------------

NoCall == [fn |-> "none", arg |-> <<>>, ret |-> None, done |-> FALSE]

Init ==
  /\ strftimePadsYear \in BOOLEAN
  /\ disk \in {d \in SUBSET Files : Cardinality(d) <= MaxFiles}
  /\ recursive \in BOOLEAN
  /\ listing = <<>>
  /\ pdfs = <<>>
  /\ idx = 0
  /\ rows = <<>>
  /\ raised = {}
  /\ csv = <<>>
  /\ pc = "start"
  /\ exitMsg = None
  /\ call = NoCall

\* pdfs = sorted(iter_pdfs(args.folder, args.recursive))
Enumerate ==
  /\ pc = "start"
  /\ \E order \in Orders(iter_pdfs(disk, recursive)) :
       /\ listing' = order
       /\ pdfs' = sorted(order)
  /\ pc' = "enumerated"
  /\ UNCHANGED <<strftimePadsYear, disk, recursive, idx, rows, raised, csv, exitMsg, call>>

\* if not pdfs: raise SystemExit("Keine PDFs gefunden.")
AbortNoPdfs ==
  /\ pc = "enumerated"
  /\ no_pdfs(pdfs)
  /\ exitMsg' = <<"K","e","i","n","e"," ","P","D","F","s"," ","g","e","f","u","n","d","e","n",".">>
  /\ pc' = "exit"
  /\ UNCHANGED <<strftimePadsYear, disk, recursive, listing, pdfs, idx, rows, raised, csv, call>>

\* rows = []; for p in pdfs:
BeginLoop ==
  /\ pc = "enumerated"
  /\ ~no_pdfs(pdfs)
  /\ rows' = <<>>
  /\ idx' = 1
  /\ pc' = "loop"
  /\ UNCHANGED <<strftimePadsYear, disk, recursive, listing, pdfs, raised, csv, exitMsg, call>>

\* the try block runs to its end
ExtractOk ==
  /\ pc = "loop"
  /\ idx <= Len(pdfs)
  /\ rows' = Append(rows, ok_row(pdfs[idx]))
  /\ idx' = idx + 1
  /\ UNCHANGED <<strftimePadsYear, disk, recursive, listing, pdfs, raised, csv, pc, exitMsg, call>>

\* extract_text_from_pdf raises: except Exception as e
ExtractRaises ==
  /\ pc = "loop"
  /\ idx <= Len(pdfs)
  /\ \E msg \in ExceptionMessages : rows' = Append(rows, error_row(pdfs[idx], msg))
  /\ raised' = raised \cup {idx}
  /\ idx' = idx + 1
  /\ UNCHANGED <<strftimePadsYear, disk, recursive, listing, pdfs, csv, pc, exitMsg, call>>

\* df = pd.DataFrame(rows); df.to_csv(args.out, ...)
WriteCsv ==
  /\ pc = "loop"
  /\ idx > Len(pdfs)
  /\ csv' = Append(csv, rows)
  /\ pc' = "done"
  /\ UNCHANGED <<strftimePadsYear, disk, recursive, listing, pdfs, idx, rows, raised, exitMsg, call>>

Next ==
  \/ Enumerate
  \/ AbortNoPdfs
  \/ BeginLoop
  \/ ExtractOk
  \/ ExtractRaises
  \/ WriteCsv

Spec == Init /\ [][Next]_vars

\* ------------------------------------------------------------------------
\* The batch loop (Spec)
\* ------------------------------------------------------------------------

DataFields == {"Datum", "Preis", "Fahrtart", "Start", "Ziel"}

\* C1: every document whose extraction raised has exactly one row, its row,
\* with Datum, Preis, Fahrtart, Start and Ziel null and a non-empty Fehler,
\* and the documents after it are still processed, one row each.
C1_FailedDocumentRow ==
  /\ pc \in {"loop", "done"} => Len(rows) = idx - 1
  /\ pc = "done" => Len(rows) = Len(pdfs)
  /\ \A k \in raised :
       /\ k <= Len(rows)
       /\ rows[k].Datei = basename(pdfs[k])
       /\ \A f \in DataFields : rows[k][f] = None
       /\ "Fehler" \in DOMAIN rows[k]
       /\ rows[k].Fehler # <<>>

\* C1 without "non-empty": what the loop does guarantee
C1_FailedDocumentRowAnyMessage ==
  /\ pc \in {"loop", "done"} => Len(rows) = idx - 1
  /\ pc = "done" => Len(rows) = Len(pdfs)
  /\ \A k \in 1..Len(rows) :
       /\ rows[k].Datei = basename(pdfs[k])
       /\ k \in raised =>
            /\ \A f \in DataFields : rows[k][f] = None
            /\ "Fehler" \in DOMAIN rows[k]
            /\ rows[k].Fehler \in ExceptionMessages
       /\ k \notin raised => "Fehler" \notin DOMAIN rows[k]

Range(t) == {t[i] : i \in DOMAIN t}

\* C2: the output is written at most once, and only when every document
\* has been processed; a finished run has written it; it holds one row per
\* enumerated document, the rows in the ascending order of the paths,
\* whichever documents failed.
C2_OutputOnceSortedComplete ==
  /\ Len(csv) <= 1
  /\ pc = "done" <=> Len(csv) = 1
  /\ Len(csv) = 1 =>
       /\ Range(listing) # {}
       /\ idx = Len(pdfs) + 1
       /\ Len(csv[1]) = Cardinality(Range(listing))
       /\ Range(pdfs) = Range(listing)
       /\ \A j, k \in 1..Len(pdfs) : j < k => StrLess(pdfs[j], pdfs[k])
       /\ \A k \in 1..Len(csv[1]) : csv[1][k].Datei = basename(pdfs[k])

\* a run that enumerated three documents out of order, of which some
\* failed and some did not, and wrote the output
C2_Witness ==
  /\ pc = "done"
  /\ Len(csv) = 1
  /\ Len(csv[1]) = 3
  /\ listing # pdfs
  /\ raised # {}
  /\ raised # 1..3

\* C3: when the enumeration yields no document the run aborts with
\* SystemExit's message before any document is processed and with no
\* output written.
C3_NoPdfsAbortsBeforeOutput ==
  (pc # "start" /\ iter_pdfs(disk, recursive) = {}) =>
    /\ pc \in {"enumerated", "exit"}
    /\ pc = "enumerated" => ENABLED AbortNoPdfs /\ ~ENABLED BeginLoop
    /\ pc = "exit" => exitMsg # None /\ exitMsg # <<>>
    /\ idx = 0
    /\ rows = <<>>
    /\ csv = <<>>

\* a folder that holds files but no PDF the enumeration finds: aborted
C3_Witness ==
  /\ pc = "exit"
  /\ disk # {}
  /\ iter_pdfs(disk, recursive) = {}
  /\ csv = <<>>

\* ------------------------------------------------------------------------
\* The extractors called on their own
\* ------------------------------------------------------------------------

mainVars == <<strftimePadsYear, disk, recursive, listing, pdfs, idx, rows, raised, csv, pc, exitMsg>>

\* the calls of fn that are about to be made, one for each argument
Calls(fn, args) == {[fn |-> fn, arg |-> a, ret |-> None, done |-> FALSE] : a \in args}

\* one of the calls is about to be made, outside main
CallInit(calls) ==
  /\ strftimePadsYear \in BOOLEAN
  /\ disk = {}
  /\ recursive = FALSE
  /\ listing = <<>>
  /\ pdfs = <<>>
  /\ idx = 0
  /\ rows = <<>>
  /\ raised = {}
  /\ csv = <<>>
  /\ pc = "call"
  /\ exitMsg = None
  /\ call \in calls

\* "\n".join(lines[i:])
RECURSIVE JoinLines(_, _)
JoinLines(lines, i) ==
  IF i > Len(lines) THEN <<>>
  ELSE IF i = Len(lines) THEN lines[i]
  ELSE lines[i] \o <<NL>> \o JoinLines(lines, i + 1)

\* the texts of 1..n lines, each line one of the given lines
TextsOf(lines, n) ==
  {JoinLines(ls, 1) : ls \in UNION {[1..k -> lines] : k \in 1..n}}

\* ------------------------------------------------------------------------
\* to_iso_date and parse_date called on their own (SpecDate)
\* ------------------------------------------------------------------------

\* the days, months and years of the dates to_iso_date is called with
MaxDay == 32
MaxMonth == 13
Days == {0, 1, 9, 10, 28} \cup 29..MaxDay
Months == 0..MaxMonth
Years == {0, 1, 999, 1000, 1900, 2000, 2023, 2024, 9999}

\* day, month and year written DD.MM.YYYY
WrittenDate(d, m, y) ==
  ZeroPad(ToStr(d), 2) \o <<".">> \o ZeroPad(ToStr(m), 2) \o <<".">> \o ZeroPad(ToStr(y), 4)

\* strings that are not of the form DD.MM.YYYY
OtherDateStrings ==
  {<<"1", ".", "2", ".", "2", "0", "2", "4">>, <<" ", "1", ".", "2", ".", "2", "0", "2", "4">>, <<"0", "1", ".", "2", ".", "2", "0", "2", "4">>, <<"1", ".", "0", "2", ".", "2", "0", "2",
                                                 "4">>, <<"0", "1", ".", "0", "2",
                                                                ".", "2", "4">>,
   <<"0", "1", ".", "0", "2", ".", "2", "0", "2", "4", " ">>, <<"0", "1", ".", "0", "2", ".", "2", "0", "2", "4", "5">>, <<"0", "0", "1", ".", "0", "2", ".", "2", "0", "2",
                                       "4">>, <<"0", "1", "-", "0", "2", "-",
                                                        "2", "0", "2", "4">>,
   <<"2", "0", "2", "4", "-", "0", "2", "-", "0", "1">>, <<"0", "a", ".", "0", "2", ".", "2", "0", "2", "4">>, <<"0", "1", ".", "0", "2", ".", "2", "0", "2", "4",
                                     "x">>, <<"M", "o", "n", "t", "a", "g">>, <<>>}

DateStrings ==
  {WrittenDate(d, m, y) : d \in Days, m \in Months, y \in Years} \cup OtherDateStrings

\* the lines of the texts parse_date is called with
FILLER_23 == <<" ", "x", "x", "x", "x", "x", "x", "x", "x", "x", "x", "x", "x", "x", "x",
               "x", "x", "x", "x", "x", "x", "x", "x", " ">>
FILLER_24 == <<" ", "x", "x", "x", "x", "x", "x", "x", "x", "x", "x", "x", "x", "x", "x",
               "x", "x", "x", "x", "x", "x", "x", "x", "x", " ">>

LINE_GEBUCHT == <<"G", "e", "b", "u", "c", "h", "t", " ", "a", "m", " ", "0", "1", ".",
                  "0", "1", ".", "2", "0", "2", "4">>
LINE_FAHRTANTRITT == <<"F", "a", "h", "r", "t", "a", "n", "t", "r", "i", "t", "t", " ",
                       "a", "m", " ", "0", "5", ".", "0", "1", ".", "2", "0", "2", "4">>

DateLines ==
  {LINE_GEBUCHT,
   LINE_FAHRTANTRITT,
   <<"F", "A", "H", "R", "T", "A", "N", "T", "R", "I", "T", "T", "\t", "A", "M", " ",
     " ", "0", "6", ".", "0", "1", ".", "2", "0", "2", "4">>,
   <<"F", "a", "h", "r", "t", "a", "n", "t", "r", "i", "t", "t", " ", "a", "m", " ", "5",
     ".", "1", ".", "2", "0", "2", "4">>,
   <<"G", "ue", "l", "t", "i", "g", "k", "e", "i", "t", ":", " ", "0", "7", ".", "0",
     "1", ".", "2", "0", "2", "4", " ", "0", "0", ":", "0", "0", " ", "U", "h", "r">>,
   <<"g", "ue", "l", "t", "i", "g", "k", "e", "i", "t", ":", "0", "8", ".", "0", "1",
     ".", "2", "0", "2", "4", " ", "0", "0", ":", "0", "0", "u", "h", "r">>,
   <<"G", "ue", "l", "t", "i", "g", "k", "e", "i", "t", ":", " ", "1", "0", ".", "0",
     "1", ".", "2", "0", "2", "4", " ", "1", "2", ":", "0", "0", " ", "U", "h", "r">>,
   <<"R", "e", "i", "s", "e", " ", "a", "m", " ", "0", "9", ".", "0", "1", ".", "2", "0",
     "2", "4">>,
   <<"k", "a", "m", " ", "0", "3", ".", "0", "1", ".", "2", "0", "2", "4">>,
   <<"a", "m", " ", "0", "4", ".", "0", "1", ".", "2", "0", "2", "4", "5">>,
   <<"A", "m", " ", "3", "1", ".", "0", "2", ".", "2", "0", "2", "4">>,
   <<"G", "e", "b", "u", "c", "h", "t">> \o FILLER_23 \o <<"a", "m", " ", "0", "2", ".", "0", "1", ".", "2", "0",
                                 "2", "4">>,
   <<"G", "e", "b", "u", "c", "h", "t">> \o FILLER_24 \o <<"a", "m", " ", "1", "1", ".", "0", "1", ".", "2", "0",
                                 "2", "4">>,
   <<"I", "h", "r", "e", " ", "R", "e", "i", "s", "e", ",", " ", "I", "h", "r", " ", "T",
     "i", "c", "k", "e", "t">>}

MaxDateLines == 2

DateTexts == TextsOf(DateLines, MaxDateLines) \cup {<<>>}

InitDate == CallInit(Calls("to_iso_date", DateStrings) \cup Calls("parse_date", DateTexts))

CallToIsoDate ==
  /\ pc = "call"
  /\ call.fn = "to_iso_date"
  /\ ~call.done
  /\ call' = [call EXCEPT !.ret = to_iso_date(call.arg), !.done = TRUE]
  /\ UNCHANGED mainVars

CallParseDate ==
  /\ pc = "call"
  /\ call.fn = "parse_date"
  /\ ~call.done
  /\ call' = [call EXCEPT !.ret = parse_date(call.arg), !.done = TRUE]
  /\ UNCHANGED mainVars

NextDate ==
  \/ CallToIsoDate
  \/ CallParseDate

SpecDate == InitDate /\ [][NextDate]_vars

\* ------------------------------------------------------------------------
\* parse_price called on its own (SpecPrice)
\* ------------------------------------------------------------------------

LINE_GESAMTPREIS == <<"G", "e", "s", "a", "m", "t", "p", "r", "e", "i", "s", " ", "1",
                      "2", "9", ",", "9", "0", " ", "EUR">>

PriceLines ==
  {LINE_GESAMTPREIS,
   <<"G", "E", "S", "A", "M", "T", "P", "R", "E", "I", "S", "\t", "1", ".", "2", "3",
     "4", ",", "5", "6", "EUR">>,
   <<"G", "e", "s", "a", "m", "t", "p", "r", "e", "i", "s", " ", "1", "2", ".", "3", "4",
     "5", ".", "6", "7", "8", ",", "9", "0", " ", " ", "EUR", " ", ".">>,
   <<"g", "e", "s", "a", "m", "t", "p", "r", "e", "i", "s", " ", "0", ",", "0", "0", " ",
     "EUR">>,
   <<"G", "e", "s", "a", "m", "t", "p", "r", "e", "i", "s", " ", "1", "2", "3", "4", ",",
     "5", "6", " ", "EUR">>,
   <<"G", "e", "s", "a", "m", "t", "p", "r", "e", "i", "s", " ", "1", ".", "2", "3", ",",
     "4", "5", " ", "EUR">>,
   <<"G", "e", "s", "a", "m", "t", "p", "r", "e", "i", "s", " ", "1", "2", ",", "5", " ",
     "EUR">>,
   <<"G", "e", "s", "a", "m", "t", "p", "r", "e", "i", "s", " ", "1", "2", ",", "3", "4",
     "5", " ", "EUR">>,
   <<"G", "e", "s", "a", "m", "t", "p", "r", "e", "i", "s", "7", ",", "0", "0", " ",
     "EUR">>,
   <<"G", "e", "s", "a", "m", "t", "p", "r", "e", "i", "s", " ", "9", "9", ",", "9",
     "9">>,
   <<"G", "e", "s", "a", "m", "t", "p", "r", "e", "i", "s">>,
   <<"EUR", " ", "5">>,
   <<"P", "r", "e", "i", "s", " ", "9", ",", "9", "9", " ", "EUR">>}

MaxPriceLines == 2

PriceTexts == TextsOf(PriceLines, MaxPriceLines) \cup {<<>>}

InitPrice == CallInit(Calls("parse_price", PriceTexts))

CallParsePrice ==
  /\ pc = "call"
  /\ call.fn = "parse_price"
  /\ ~call.done
  /\ call' = [call EXCEPT !.ret = parse_price(call.arg), !.done = TRUE]
  /\ UNCHANGED mainVars

NextPrice == CallParsePrice

SpecPrice == InitPrice /\ [][NextPrice]_vars

\* ------------------------------------------------------------------------
\* split_start_ziel and parse_route called on their own (SpecRoute)
\* ------------------------------------------------------------------------

\* route texts of 1..MaxTokens words
RouteWords == {<<"B", "e", "r", "l", "i", "n">>, <<"H", "b", "f">>, <<"a", "b">>, <<"1", "2">>, <<"a", ":", "b">>}

MaxTokens == 3

WordRoutes ==
  {JoinTokens(ws, 0, Len(ws)) : ws \in UNION {[1..n -> RouteWords] : n \in 1..MaxTokens}}

\* a word of 77 characters: with " ab" a side of 80, with " Hbf" one of 81
LONG_WORD == [i \in 1..77 |-> "x"]

LongRoutes ==
  {LONG_WORD \o <<" ", "a", "b">>, LONG_WORD \o <<" ", "H", "b", "f">>, <<"a", "b", " ">> \o LONG_WORD, <<"H", "b", "f",
                                                                        " ">> \o LONG_WORD,
   LONG_WORD \o <<" ", "a", "b", " ", "H", "b", "f">>, <<"B", "e", "r", "l", "i", "n", " ", "H", "b", "f", " ",
                               "H", "a", "m", "b", "u", "r", "g", " ", "H", "b", "f">>, <<"K", "oe", "l", "n", " ", "+",
                                                           "C", "i", "t", "y", " ", "B",
                                                           "o", "n", "n">>,
   <<"K", "OE", "L", "N", " ", "H", "A", "U", "P", "T", "B", "A", "H", "N", "H", "O",
     "F", " ", "B", "o", "n", "n", " ", "B", "f">>, <<"M", "ue", "n", "c", "h", "e", "n", " ", "F", "r",
                                    "a", "n", "k", "f", "u", "r", "t", "(", "M", "a", "i",
                                    "n", ")", "H", "b", "f">>, <<" ", " ", "K", "oe",
                                                                    "l", "n", " ", " ",
                                                                    " ", "B", "o", "n",
                                                                    "n", " ", " ">>,
   <<"K", "oe", "l", "n", "\t", "B", "o", "n", "n", "\t", "H", "b", "f">>, <<>>}

\* route texts with a separator between two sides
Separators == {<<"-">>, <<"ndash">>, <<"mdash">>, <<"rarr">>, <<"-", ">">>, <<"rsaquo">>, <<">">>, <<"<">>}

Paddings == {<<<<>>, <<>>>>, <<<<" ">>, <<" ">>>>, <<<<" ", " ">>, <<>>>>}

SeparatorRoutes ==
  {x \o p[1] \o s \o p[2] \o y :
     x \in {<<"M", "ue", "n", "c", "h", "e", "n">>, <<"B", "a", "d", " ", "S", "a", "l", "z", "i", "g">>}, y \in {<<"F", "r", "a", "n", "k", "f", "u",
                                                   "r", "t", "(", "M", "a", "i", "n", ")",
                                                   "H", "b", "f">>, <<"B">>},
     s \in Separators, p \in Paddings}
  \cup {<<"-", " ", "K", "oe", "l", "n", " ", "B", "o", "n", "n">>, <<"K", "oe", "l", "n", " ", "B", "o", "n", "n", " ", "-">>, <<"-">>, <<"K", "oe", "l", "n", " ", "-", ">",
                                                   " ">>, <<"K", "oe", "l", "n",
                                                                 " ", "-", " ", "B", "o",
                                                                 "n", "n", " ", "-", " ",
                                                                 "H", "b", "f">>}

\* route texts with a Via clause
ViaRoutes ==
  {x \o v \o z :
     x \in {<<"K", "oe", "l", "n", " ", "H", "b", "f">>, <<"K", "oe", "l", "n">>, <<>>, <<"K", "oe", "l", "n", " ", "-", " ", "B", "o",
                                            "n", "n">>, <<"B", "e", "r", "l", "i",
                                                             "n", " ", "H", "b", "f", " ",
                                                             "H", "a", "m", "b", "u", "r",
                                                             "g", " ", "H", "b", "f">>},
     v \in {<<" ", "V", "i", "a", ":", " ">>, <<" ", "V", "i", "a", " ">>, <<"V", "i", "a", ":">>, <<" ", "V", "i", "a", "d", "u", "k", "t",
                                               " ">>, <<" ", "v", "i", "a", " ">>},
     z \in {<<"D", "ue", "s", "s", "e", "l", "d", "o", "r", "f", " ", "F", "r", "a", "n",
              "k", "f", "u", "r", "t", " ", "H", "b", "f">>, <<"B", "o", "n", "n", " ", "-", " ", "K", "oe",
                                            "l", "n">>, <<"x", " ", "V", "i", "a",
                                                             ":", " ", "y">>, <<>>}}

RouteParts == WordRoutes \cup LongRoutes \cup SeparatorRoutes \cup ViaRoutes

\* the lines of the texts parse_route is called with
LINE_VIA == <<"E", "i", "n", "f", "a", "c", "h", "e", " ", "F", "a", "h", "r", "t", " ",
              "K", "oe", "l", "n", " ", "H", "b", "f", " ", "V", "i", "a", ":", " ", "D",
              "ue", "s", "s", "e", "l", "d", "o", "r", "f", " ", "F", "r", "a", "n", "k",
              "f", "u", "r", "t", " ", "H", "b", "f">>
LINE_HBF == <<"E", "i", "n", "f", "a", "c", "h", "e", " ", "F", "a", "h", "r", "t", " ",
              "B", "e", "r", "l", "i", "n", " ", "H", "b", "f", " ", "H", "a", "m", "b",
              "u", "r", "g", " ", "H", "b", "f">>
LINE_HINFAHRT == <<"H", "i", "n", "f", "a", "h", "r", "t", " ", "M", "ue", "n", "c", "h",
                   "e", "n", " ", "-", " ", "F", "r", "a", "n", "k", "f", "u", "r", "t",
                   "(", "M", "a", "i", "n", ")", "H", "b", "f">>

RouteLines ==
  {LINE_VIA,
   LINE_HBF,
   LINE_HINFAHRT,
   <<"E", "I", "N", "F", "A", "C", "H", "E", " ", " ", "F", "A", "H", "R", "T", "\t",
     "B", "o", "n", "n", " ", "K", "oe", "l", "n", " ", " ">>,
   <<"H", "i", "n", "f", "a", "h", "r", "t">>,
   <<"E", "i", "n", "f", "a", "c", "h", "e">>,
   <<"F", "a", "h", "r", "t", " ", "K", "i", "e", "l", " ", "H", "b", "f">>,
   <<"R", "ue", "c", "k", "f", "a", "h", "r", "t", " ", "B", "o", "n", "n", " ", "K",
     "oe", "l", "n">>,
   <<" ", "H", "i", "n", "f", "a", "h", "r", "t", " ", "U", "l", "m", " ", "H", "b",
     "f">>,
   <<"I", "C", "E", " ", "1", "2", "3", " ", "B", "o", "n", "n">>,
   <<>>}

MaxLines == 2

RouteTexts == TextsOf(RouteLines, MaxLines)

InitRoute ==
  CallInit(Calls("split_start_ziel", RouteParts) \cup Calls("parse_route", RouteTexts))

CallSplitStartZiel ==
  /\ pc = "call"
  /\ call.fn = "split_start_ziel"
  /\ ~call.done
  /\ call' = [call EXCEPT !.ret = split_start_ziel(call.arg), !.done = TRUE]
  /\ UNCHANGED mainVars

CallParseRoute ==
  /\ pc = "call"
  /\ call.fn = "parse_route"
  /\ ~call.done
  /\ call' = [call EXCEPT !.ret = parse_route(call.arg), !.done = TRUE]
  /\ UNCHANGED mainVars

NextRoute ==
  \/ CallSplitStartZiel
  \/ CallParseRoute

SpecRoute == InitRoute /\ [][NextRoute]_vars

\* ------------------------------------------------------------------------
\* What a text holds at a position, character by character
\* ------------------------------------------------------------------------

\* the word w (in lower case) stands at position i of text, in any case
HasWordAt(text, w, i) ==
  /\ i >= 1
  /\ i + Len(w) - 1 <= Len(text)
  /\ \A k \in 1..Len(w) : LowerChar(text[i + k - 1]) = w[k]

\* the first position from i on that holds no white space (Len(text) + 1 if none)
AfterSpace(text, i) ==
  Least({j \in i..(Len(text) + 1) : j = Len(text) + 1 \/ text[j] \notin WhiteSpace})

\* DD.MM.YYYY, any digits, stands at position i of text
HasDateAt(text, i) ==
  /\ i >= 1
  /\ i + 9 <= Len(text)
  /\ \A k \in {0, 1, 3, 4, 6, 7, 8, 9} : text[i + k] \in Digits
  /\ text[i + 2] = "."
  /\ text[i + 5] = "."

DateAt(text, i) == SubSeq(text, i, i + 9)

\* ------------------------------------------------------------------------
\* to_iso_date and parse_date (SpecDate)
\* ------------------------------------------------------------------------

\* s is DD.MM.YYYY and names a day of the calendar
C8_IsCalendarDate(s) ==
  /\ Len(s) = 10
  /\ HasDateAt(s, 1)
  /\ ToInt(SubSeq(s, 7, 10)) >= 1
  /\ ToInt(SubSeq(s, 4, 5)) \in 1..12
  /\ ToInt(SubSeq(s, 1, 2)) \in 1..DaysInMonth(ToInt(SubSeq(s, 7, 10)), ToInt(SubSeq(s, 4, 5)))

\* YYYY-MM-DD with the digits of DD.MM.YYYY
C8_Iso(s) == SubSeq(s, 7, 10) \o <<"-">> \o SubSeq(s, 4, 5) \o <<"-">> \o SubSeq(s, 1, 2)

\* C8: to_iso_date of a DD.MM.YYYY that names a day of the calendar is
\* YYYY-MM-DD with the same four year digits, two month digits and two day
\* digits; to_iso_date of every other string is that string unchanged.
C8_ToIsoDateRoundTrip ==
  (call.fn = "to_iso_date" /\ call.done) =>
    call.ret = (IF C8_IsCalendarDate(call.arg) THEN C8_Iso(call.arg) ELSE call.arg)

\* C8 as far as it goes: from the year 1000 on a DD.MM.YYYY that names a
\* day is converted, and what strptime rejects is returned unchanged
C8_ToIsoDateFromYear1000 ==
  (call.fn = "to_iso_date" /\ call.done) =>
    /\ (C8_IsCalendarDate(call.arg) /\ ToInt(SubSeq(call.arg, 7, 10)) >= 1000) =>
         call.ret = C8_Iso(call.arg)
    /\ ~strptime(call.arg).ok => call.ret = call.arg

\* the position of the date of a "Fahrtantritt am DD.MM.YYYY" at i, or 0
C4_Fahrtantritt(text, i) ==
  LET w == <<"f", "a", "h", "r", "t", "a", "n", "t", "r", "i", "t", "t">>
      a == i + Len(w)
      b == AfterSpace(text, a)
      c == AfterSpace(text, b + 2)
  IN  IF /\ HasWordAt(text, w, i)
         /\ b > a
         /\ HasWordAt(text, <<"a", "m">>, b)
         /\ c > b + 2
         /\ HasDateAt(text, c)
        THEN c ELSE 0

\* the position of the date of a "Gültigkeit: DD.MM.YYYY 00:00 Uhr" at i, or 0
C4_Gueltigkeit(text, i) ==
  LET w == <<"g", "ue", "l", "t", "i", "g", "k", "e", "i", "t", ":">>
      b == AfterSpace(text, i + Len(w))
      c == AfterSpace(text, b + 10)
      d == AfterSpace(text, c + 5)
  IN  IF /\ HasWordAt(text, w, i)
         /\ HasDateAt(text, b)
         /\ HasWordAt(text, <<"0", "0", ":", "0", "0">>, c)
         /\ HasWordAt(text, <<"u", "h", "r">>, d)
        THEN b ELSE 0

\* the position of the date of a word "am" at i followed by DD.MM.YYYY and
\* no further digit or letter, or 0
C4_Am(text, i) ==
  LET b == AfterSpace(text, i + 2)
  IN  IF /\ HasWordAt(text, <<"a", "m">>, i)
         /\ i = 1 \/ ~IsWord(text[i - 1])
         /\ b > i + 2
         /\ HasDateAt(text, b)
         /\ b + 10 > Len(text) \/ ~IsWord(text[b + 10])
        THEN b ELSE 0

\* "gebucht", in any case, lies within the 30 characters before position i
C4_Booked(text, i) ==
  \E p \in Max(1, i - 30)..(i - 7) : HasWordAt(text, <<"g", "e", "b", "u", "c", "h",
                                                       "t">>, p)

C4_Rule1(text) == {i \in 1..Len(text) : C4_Fahrtantritt(text, i) > 0}
C4_Rule2(text) == {i \in 1..Len(text) : C4_Gueltigkeit(text, i) > 0}
C4_Rule3(text) == {i \in 1..Len(text) : C4_Am(text, i) > 0 /\ ~C4_Booked(text, i)}

\* the date of the first match of the first rule that matches
C4_Expected(text) ==
  IF C4_Rule1(text) # {}
    THEN to_iso_date(DateAt(text, C4_Fahrtantritt(text, Least(C4_Rule1(text)))))
  ELSE IF C4_Rule2(text) # {}
    THEN to_iso_date(DateAt(text, C4_Gueltigkeit(text, Least(C4_Rule2(text)))))
  ELSE IF C4_Rule3(text) # {}
    THEN to_iso_date(DateAt(text, C4_Am(text, Least(C4_Rule3(text)))))
  ELSE None

\* C4: parse_date returns the converted date of the first rule that matches,
\* wherever the matches stand in the text: "Fahrtantritt am DD.MM.YYYY"; else
\* "Gültigkeit: DD.MM.YYYY 00:00 Uhr"; else the first "am DD.MM.YYYY" whose 30
\* preceding characters do not hold "gebucht" in any case; else None. A text
\* of "Gebucht am 01.01.2024" and "Fahrtantritt am 05.01.2024", in either
\* order, gives 2024-01-05.
C4_ParseDatePriority ==
  (call.fn = "parse_date" /\ call.done) =>
    /\ call.ret = C4_Expected(call.arg)
    /\ call.arg \in {JoinLines(<<LINE_GEBUCHT, LINE_FAHRTANTRITT>>, 1),
                     JoinLines(<<LINE_FAHRTANTRITT, LINE_GEBUCHT>>, 1)} =>
         call.ret = <<"2", "0", "2", "4", "-", "0", "1", "-", "0", "5">>

\* parse_date has returned the date of travel of a text that names the date
\* of booking first
C4_Witness ==
  /\ call.fn = "parse_date"
  /\ call.done
  /\ call.arg = JoinLines(<<LINE_GEBUCHT, LINE_FAHRTANTRITT>>, 1)
  /\ call.ret = <<"2", "0", "2", "4", "-", "0", "1", "-", "0", "5">>

\* ------------------------------------------------------------------------
\* parse_price (SpecPrice)
\* ------------------------------------------------------------------------

\* s has the form D{1,3}(.DDD)*,DD
C9_IsAmount(s) ==
  /\ Len(s) >= 4
  /\ s[Len(s) - 2] = ","
  /\ s[Len(s) - 1] \in Digits
  /\ s[Len(s)] \in Digits
  /\ \E g \in 1..3 :
       /\ g <= Len(s) - 3
       /\ (Len(s) - 3 - g) % 4 = 0
       /\ \A i \in 1..(Len(s) - 3) :
            IF i > g /\ (i - g) % 4 = 1 THEN s[i] = "." ELSE s[i] \in Digits

\* the ends e of an amount that starts after "Gesamtpreis" at i and white
\* space, and that white space or nothing and the sign of the euro follow
C9_AmountEnds(text, i) ==
  LET w == <<"g", "e", "s", "a", "m", "t", "p", "r", "e", "i", "s">>
      a == i + Len(w)
      b == AfterSpace(text, a)
  IN  IF HasWordAt(text, w, i) /\ b > a
        THEN {e \in b..Len(text) :
                /\ C9_IsAmount(SubSeq(text, b, e))
                /\ AfterSpace(text, e + 1) <= Len(text)
                /\ text[AfterSpace(text, e + 1)] = "EUR"}
        ELSE {}

C9_Occurrences(text) == {i \in 1..Len(text) : C9_AmountEnds(text, i) # {}}

\* the amount of the first occurrence, as it stands in the text
C9_Expected(text) ==
  IF C9_Occurrences(text) = {} THEN None
  ELSE SubSeq(text,
              AfterSpace(text, Least(C9_Occurrences(text)) + 11),
              Least(C9_AmountEnds(text, Least(C9_Occurrences(text)))))

\* C9: parse_price returns the amount of the first "Gesamtpreis" (in any
\* case) that white space, an amount D{1,3}(.DDD)*,DD and the sign of the
\* euro follow, with its comma and its dots as they stand in the text and
\* without the sign; None when there is none. "Gesamtpreis 129,90 €" gives
\* 129,90.
C9_ParsePriceVerbatim ==
  (call.fn = "parse_price" /\ call.done) =>
    /\ call.ret = C9_Expected(call.arg)
    /\ call.ret # None => "EUR" \notin Range(call.ret) /\ Contains(call.arg, call.ret)
    /\ call.arg = LINE_GESAMTPREIS => call.ret = <<"1", "2", "9", ",", "9", "0">>

\* parse_price has returned the first amount of a text that holds two, the
\* first one with dots
C9_Witness ==
  /\ call.fn = "parse_price"
  /\ call.done
  /\ call.arg = JoinLines(<<<<"G", "E", "S", "A", "M", "T", "P", "R", "E", "I", "S",
                              "\t", "1", ".", "2", "3", "4", ",", "5", "6", "EUR">>, LINE_GESAMTPREIS>>, 1)
  /\ call.ret = <<"1", ".", "2", "3", "4", ",", "5", "6">>

\* ------------------------------------------------------------------------
\* split_start_ziel and parse_route (SpecRoute)
\* ------------------------------------------------------------------------

ViaMarkers == {<<" ", "V", "i", "a", ":">>, <<" ", "V", "i", "a">>, <<"V", "i", "a", ":">>}

\* the positions of the trimmed text at which a Via marker starts
ViaAt(s) == {i \in 1..Len(Strip(s)) : \E w \in ViaMarkers : OccursAt(Strip(s), w, i)}

\* the trimmed text before the first Via marker
BeforeVia(s) ==
  Strip(IF ViaAt(s) = {} THEN s ELSE SubSeq(Strip(s), 1, Least(ViaAt(s)) - 1))

SeparatorChars == {"-", "ndash", "mdash", "rarr", "rsaquo", ">", "<"}

\* the positions of r that hold a character of a separator
SeparatorAt(r) == {i \in 1..Len(r) : r[i] \in SeparatorChars}

Greatest(ns) == CHOOSE n \in ns : \A k \in ns : k <= n

\* r holds no separator with text on both of its sides
NoSeparatorSplit(r) ==
  \/ SeparatorAt(r) = {}
  \/ Strip(SubSeq(r, 1, Least(SeparatorAt(r)) - 1)) = <<>>
  \/ Strip(SubSeq(r, Least(SeparatorAt(r)) + 1, Len(r))) = <<>>

\* s is X, one separator, Y: the only separator characters of s are those of
\* that one separator, X and Y hold text, and s holds no Via marker
C5_IsXSepY(s) ==
  /\ SeparatorAt(s) # {}
  /\ ViaAt(s) = {}
  /\ \/ Greatest(SeparatorAt(s)) = Least(SeparatorAt(s))
     \/ /\ Greatest(SeparatorAt(s)) = Least(SeparatorAt(s)) + 1
        /\ s[Least(SeparatorAt(s))] = "-"
        /\ s[Greatest(SeparatorAt(s))] = ">"
  /\ Strip(SubSeq(s, 1, Least(SeparatorAt(s)) - 1)) # <<>>
  /\ Strip(SubSeq(s, Greatest(SeparatorAt(s)) + 1, Len(s))) # <<>>

\* C5: for each of the separators - – — → -> › > < and a route text X, the
\* separator, Y, with X and Y non-empty and free of separator characters,
\* split_start_ziel returns the trimmed X and the trimmed Y: neither holds a
\* part of the separator.
C5_ExplicitSeparatorSplit ==
  (call.fn = "split_start_ziel" /\ call.done /\ C5_IsXSepY(call.arg)) =>
    call.ret = <<Strip(SubSeq(call.arg, 1, Least(SeparatorAt(call.arg)) - 1)),
                 Strip(SubSeq(call.arg, Greatest(SeparatorAt(call.arg)) + 1, Len(call.arg)))>>

\* C5 for the separators of one character, which is as far as it goes
C5_OneCharacterSeparatorSplit ==
  (/\ call.fn = "split_start_ziel"
   /\ call.done
   /\ C5_IsXSepY(call.arg)
   /\ Greatest(SeparatorAt(call.arg)) = Least(SeparatorAt(call.arg))) =>
    call.ret = <<Strip(SubSeq(call.arg, 1, Least(SeparatorAt(call.arg)) - 1)),
                 Strip(SubSeq(call.arg, Greatest(SeparatorAt(call.arg)) + 1, Len(call.arg)))>>

\* the two sides of the split of the tokens after the k-th
C6_Sides(toks, k) == <<JoinTokens(toks, 0, k), JoinTokens(toks, k, Len(toks))>>

C6_Endings == {<<"h", "b", "f">>, <<"h", "a", "u", "p", "t", "b", "a", "h", "n", "h", "o", "f">>, <<"+", "c", "i", "t", "y">>, <<"c", "i", "t", "y">>, <<"b", "f">>}

\* the points of one side
C6_Points(s) ==
  (IF \E e \in C6_Endings : HasWordAt(s, e, Len(s) - Len(e) + 1) THEN 3 ELSE 0)
    + (IF \E i \in 1..Len(s) : IsAlpha(s[i]) THEN 1 ELSE 0)
    + (IF Len(s) \in 3..80 THEN 1 ELSE 0)

\* the score of a pair of sides
C6_Score(sides) ==
  C6_Points(sides[1]) + C6_Points(sides[2])
    - (IF ":" \in Range(sides[1]) \cup Range(sides[2]) THEN 3 ELSE 0)

\* ret is the split of the tokens of maximal score, the first one of that score
C6_IsFirstBest(toks, ret) ==
  \E k \in 1..(Len(toks) - 1) :
    /\ ret = C6_Sides(toks, k)
    /\ \A j \in 1..(Len(toks) - 1) :
         /\ C6_Score(C6_Sides(toks, j)) <= C6_Score(C6_Sides(toks, k))
         /\ j < k => C6_Score(C6_Sides(toks, j)) < C6_Score(C6_Sides(toks, k))

\* C6: when the route text (before any Via marker) has no separator with
\* text on both sides and has n >= 2 tokens, split_start_ziel returns the
\* split (tokens[0:k] joined, tokens[k:] joined), 1 <= k < n, of maximal
\* score, and of the splits of that score the one of the smallest k; a side
\* scores 3 for ending in hbf, hauptbahnhof, +city, city or bf, 1 for holding
\* a letter, 1 for a length of 3 to 80, and the pair loses 3 if a side holds a
\* colon. "Einfache Fahrt Berlin Hbf Hamburg Hbf" gives Berlin Hbf, Hamburg Hbf.
C6_HeuristicSplit ==
  /\ (/\ call.fn = "split_start_ziel"
      /\ call.done
      /\ NoSeparatorSplit(BeforeVia(call.arg))
      /\ Len(Tokens(BeforeVia(call.arg))) >= 2) =>
       C6_IsFirstBest(Tokens(BeforeVia(call.arg)), call.ret)
  /\ (call.fn = "parse_route" /\ call.done /\ call.arg = LINE_HBF) =>
       call.ret = <<<<"E", "i", "n", "f", "a", "c", "h", "e", " ", "F", "a", "h", "r",
                      "t">>, <<"B", "e", "r", "l", "i", "n", " ", "H", "b",
                                          "f">>, <<"H", "a", "m", "b", "u", "r",
                                                          "g", " ", "H", "b", "f">>>>

\* split_start_ziel has split three equal tokens, whose two splits score the
\* same, after the first
C6_Witness ==
  /\ call.fn = "split_start_ziel"
  /\ call.done
  /\ call.arg = <<"a", "b", " ", "a", "b", " ", "a", "b">>
  /\ call.ret = <<<<"a", "b">>, <<"a", "b", " ", "a", "b">>>>

\* a route text with a Via marker is split as the text before the marker is;
\* with fewer than two tokens and no separator before the marker the origin
\* is that text (None if it is empty) and the destination is None
C7_Truncated ==
  (call.fn = "split_start_ziel" /\ call.done /\ ViaAt(call.arg) # {}) =>
    /\ call.ret = split_start_ziel(BeforeVia(call.arg))
    /\ (NoSeparatorSplit(BeforeVia(call.arg)) /\ Len(Tokens(BeforeVia(call.arg))) < 2) =>
         call.ret = <<(IF BeforeVia(call.arg) = <<>> THEN None ELSE BeforeVia(call.arg)), None>>

\* C7 as the code has it: the Via clause is cut off before the split, and
\* the line "Einfache Fahrt Köln Hbf Via: Düsseldorf Frankfurt Hbf" is split
\* as "Köln Hbf" is, which has two tokens: origin Köln, destination Hbf.
C7_ViaTruncatedThenSplit ==
  /\ C7_Truncated
  /\ (call.fn = "parse_route" /\ call.done /\ call.arg = LINE_VIA) =>
       call.ret = <<<<"E", "i", "n", "f", "a", "c", "h", "e", " ", "F", "a", "h", "r",
                      "t">>, <<"K", "oe", "l", "n">>, <<"H", "b", "f">>>>

\* C7 as stated: the Via clause is cut off before the split, and the line
\* "Einfache Fahrt Köln Hbf Via: Düsseldorf Frankfurt Hbf" gives the origin
\* "Köln Hbf", the whole text before the marker, and no destination.
C7_ViaExampleOriginOnly ==
  /\ C7_Truncated
  /\ (call.fn = "parse_route" /\ call.done /\ call.arg = LINE_VIA) =>
       call.ret = <<<<"E", "i", "n", "f", "a", "c", "h", "e", " ", "F", "a", "h", "r",
                      "t">>, <<"K", "oe", "l", "n", " ", "H", "b", "f">>, None>>

\* parse_route has returned an origin and a destination for the line with
\* the Via clause
C7_Witness ==
  /\ call.fn = "parse_route"
  /\ call.done
  /\ call.arg = LINE_VIA
  /\ call.ret[2] = <<"K", "oe", "l", "n">>
  /\ call.ret[3] # None

\* the positions at which the lines of text start
C10_LineStarts(text) == {1} \cup {i + 1 : i \in {j \in 1..Len(text) : text[j] = NL}}

\* the line of text that starts at position i
C10_Line(text, i) ==
  SubSeq(text, i, Least({j \in i..(Len(text) + 1) : j = Len(text) + 1 \/ text[j] = NL}) - 1)

\* the lines that, taken alone, are route lines
C10_RouteLineStarts(text) ==
  {i \in C10_LineStarts(text) : parse_route(C10_Line(text, i)) # <<None, None, None>>}

\* C10: parse_route answers from one line alone, the first line that is a
\* route line (the label, then route text on the same line): what it returns
\* is what it returns for that line by itself, whatever the lines after it
\* hold, and (None, None, None) when no line is a route line.
C10_OneLineOnly ==
  (call.fn = "parse_route" /\ call.done) =>
    call.ret = (IF C10_RouteLineStarts(call.arg) = {} THEN <<None, None, None>>
                ELSE parse_route(C10_Line(call.arg, Least(C10_RouteLineStarts(call.arg)))))

====
